---- MODULE Spec2Model ----
(***************************************************************************)
(* Model of gb, a group-by aggregator over delimited text (src/main.rs,    *)
(* src/arg.rs).  The state is that of main(): the parsed options, the      *)
(* header map, the resolved column indices, the accumulator map, the loop  *)
(* locals and the lines written to standard output.                        *)
(***************************************************************************)
EXTENDS Integers, Sequences, FiniteSets, TLC

\* ---------------------------------------------------------------- bounds
MaxCols == 2      \* longest header / input row drawn
MaxKeys == 2      \* longest list of key names drawn
MaxRows == 3      \* most data rows pulled from the reader

\* ---------------------------------------------------------------- inputs
HeaderNames == {"a", "v"}
ArgNames    == {"a", "v", "A"}
Cells       == {"x", "1"}
Delimiters  == {",", "\t"}
Summaries   == {"Mean", "N", "StdDev", "Var"}

SeqsUpTo(S, n) == UNION {[1..k -> S] : k \in 1..n}

NoneOpt    == [some |-> FALSE]
SomeOpt(v) == [some |-> TRUE, value |-> v]

\* ------------------------------------------------------------ pure parts
\* DashMap::insert: an existing entry for the key is replaced.
InsertKeepFirst(m, k, v) ==
    IF k \in DOMAIN m THEN m
    ELSE [x \in DOMAIN m \cup {k} |-> IF x = k THEN v ELSE m[x]]

Insert(m, k, v) ==
    [x \in DOMAIN m \cup {k} |-> IF x = k THEN v ELSE m[x]]

\* DashMap::get
Get(m, k) == IF k \in DOMAIN m THEN SomeOpt(m[k]) ELSE NoneOpt

EmptyMap == [x \in {} |-> 0]

\* for (index, header) in headers.iter().enumerate() { header_set.insert(..) }
RECURSIVE BuildHeaderSet(_, _, _)
BuildHeaderSet(hs, index, m) ==
    IF index >= Len(hs) THEN m
    ELSE BuildHeaderSet(hs, index + 1, Insert(m, hs[index + 1], index))

\* str::parse::<f64> on the cells drawn
ParseF64(cell) ==
    IF cell = "1" THEN [ok |-> TRUE, value |-> 1] ELSE [ok |-> FALSE]


\* csv::ReaderBuilder::new() leaves `flexible` off: a row whose number of
\* fields differs from the header's is delivered as Err(UnequalLengths).
ReadRecordFlexible(raw, ncols) == [ok |-> TRUE, record |-> raw]

ReadRecord(raw, ncols) ==
    IF Len(raw) = ncols THEN [ok |-> TRUE, record |-> raw]
    ELSE [ok |-> FALSE]

\* record.iter().enumerate().filter(|(i, _)| key_indices.iter().any(|ii| i == ii))
\*       .map(|(_, e)| e.to_string()).collect()
RECURSIVE ExtractFrom(_, _, _)
ExtractFrom(rec, idxs, i) ==
    IF i >= Len(rec) THEN <<>>
    ELSE IF \E j \in 1..Len(idxs) : idxs[j] = i
         THEN <<rec[i + 1]>> \o ExtractFrom(rec, idxs, i + 1)
         ELSE ExtractFrom(rec, idxs, i + 1)

ExtractKeysFirstOnly(rec, idxs) == ExtractFrom(rec, <<idxs[1]>>, 0)

ExtractKeys(rec, idxs) == ExtractFrom(rec, idxs, 0)

\* map.entry(keys).or_insert(Vec::new()).push(parsed_field)
Push(m, k, v) ==
    [x \in DOMAIN m \cup {k} |->
        IF x = k THEN (IF k \in DOMAIN m THEN Append(m[k], v) ELSE <<v>>)
        ELSE m[x]]

\* One pass of the loop body over an Ok record, as a function of the map:
\* a value cell that does not parse leaves the map alone (`continue`).
AccumulateEntryFirst(m, rec, fi, idxs) ==
    LET k == ExtractKeys(rec, idxs)
        f == ParseF64(rec[fi + 1])
        e == [x \in DOMAIN m \cup {k} |-> IF x \in DOMAIN m THEN m[x] ELSE <<>>]
    IN  IF f.ok THEN Push(m, k, f.value) ELSE e

Accumulate(m, rec, fi, idxs) ==
    LET f == ParseF64(rec[fi + 1])
    IN  IF f.ok THEN Push(m, ExtractKeys(rec, idxs), f.value) ELSE m

\* ------------------------------------------------------------- summaries
\* f64 values are carried as exact fractions [num, den] in lowest terms;
\* sqrt and powf(2.0) are kept symbolic.
RECURSIVE Gcd(_, _)
Gcd(a, b) == IF b = 0 THEN a ELSE Gcd(b, a % b)

Abs(n) == IF n < 0 THEN -n ELSE n

Frac(n, d) ==
    LET g == Gcd(Abs(n), Abs(d)) IN [num |-> n \div g, den |-> d \div g]

RECURSIVE SumSeq(_)
SumSeq(s) == IF s = <<>> THEN 0 ELSE s[1] + SumSeq(Tail(s))

RECURSIVE SumSqDiff(_, _, _)
\* sum of (S/n - v)^2 over the list, as numerator over n^2
SumSqDiff(s, S, n) ==
    IF s = <<>> THEN 0
    ELSE (S - n * s[1]) * (S - n * s[1]) + SumSqDiff(Tail(s), S, n)

meanStrict(list) ==
    LET count == Len(list) IN
    IF count > 1 THEN SomeOpt(Frac(SumSeq(list), count)) ELSE NoneOpt

mean(list) ==
    LET count == Len(list) IN
    IF count > 0 THEN SomeOpt(Frac(SumSeq(list), count)) ELSE NoneOpt

std_deviation(list) ==
    LET count == Len(list) IN
    IF mean(list).some /\ count > 0
    THEN SomeOpt([sqrt |-> Frac(SumSqDiff(list, SumSeq(list), count),
                                count * count * count)])
    ELSE NoneOpt

inner_fn(function, list) ==
    CASE function = "Mean"   -> mean(list)
      [] function = "N"      -> SomeOpt(Frac(Len(list), 1))
      [] function = "StdDev" -> std_deviation(list)
      [] function = "Var"    ->
            IF std_deviation(list).some
            THEN SomeOpt([powf2 |-> std_deviation(list).value])
            ELSE NoneOpt

\* ---------------------------------------------------------------- output
\* [String]::join
RECURSIVE Join(_, _)
Join(cells, d) ==
    IF cells = <<>> THEN ""
    ELSE IF Len(cells) = 1 THEN cells[1]
    ELSE cells[1] \o d \o Join(Tail(cells), d)

\* {:?} of Option<f64>
Debug(opt) == IF opt.some THEN "Some(" \o ToString(opt.value) \o ")" ELSE "None"

HeaderLineTab(ks, d) == Join(ks, "\t") \o "\t" \o "N"

HeaderLine(ks, d) == Join(ks, d) \o "\t" \o "N"

GroupLine(k, summary, d) == Join(k, d) \o "\t" \o Debug(summary)

\* ----------------------------------------------------------------- state
VARIABLES
    args,             \* Opt: keys, field, delimiter, function
    headers,          \* the header row the reader delivers
    header_set,       \* column name -> index
    field_index,      \* index of the value column
    key_indices,      \* indices of the key columns, in the order of args.keys
    map,              \* group key -> Vec<f64>
    record,           \* the row last pulled from the reader
    keys,             \* loop local: the group key built for `record`
    no_rows_skipped,  \* loop local
    nrecords,         \* history: rows pulled from the reader so far
    sources,          \* history: group key -> key-column tuples pushed under it
    iter,             \* group keys the emitting loop has not visited yet
    out,              \* lines written to stdout
    emitted,          \* history: (key, summary) of each group line written
    pc

vars == <<args, headers, header_set, field_index, key_indices, map, record,
          keys, no_rows_skipped, nrecords, sources, iter, out, emitted, pc>>

Opts == [keys : SeqsUpTo(ArgNames, MaxKeys), field : ArgNames,
         delimiter : Delimiters, function : Summaries]

Init ==
    /\ args \in Opts
    /\ headers \in SeqsUpTo(HeaderNames, MaxCols)
    /\ header_set = EmptyMap
    /\ field_index = 0
    /\ key_indices = <<>>
    /\ map = EmptyMap
    /\ record = <<>>
    /\ keys = <<>>
    /\ no_rows_skipped = 0
    /\ nrecords = 0
    /\ sources = EmptyMap
    /\ iter = {}
    /\ out = <<>>
    /\ emitted = <<>>
    /\ pc = "headers"

\* the cells of a record at the resolved key positions, in args.keys order
\* ("" where the record has no such cell)
KeyCells(rec, idxs) ==
    [i \in 1..Len(idxs) |-> IF idxs[i] < Len(rec) THEN rec[idxs[i] + 1] ELSE ""]

ReadHeadersPrinting ==
    /\ pc = "headers"
    /\ header_set' = BuildHeaderSet(headers, 0, EmptyMap)
    /\ out' = <<HeaderLine(args.keys, args.delimiter)>>
    /\ pc' = "check"
    /\ UNCHANGED <<args, headers, field_index, key_indices, map, record, keys,
                   no_rows_skipped, nrecords, sources, iter, emitted>>

\* main.rs 14-21
ReadHeaders ==
    /\ pc = "headers"
    /\ header_set' = BuildHeaderSet(headers, 0, EmptyMap)
    /\ pc' = "check"
    /\ UNCHANGED <<args, headers, field_index, key_indices, map, record, keys,
                   no_rows_skipped, nrecords, sources, iter, out, emitted>>

contains_field == Get(header_set, args.field).some

contains_keys_any ==
    \E i \in 1..Len(args.keys) : Get(header_set, args.keys[i]).some

contains_keys ==
    \A i \in 1..Len(args.keys) : Get(header_set, args.keys[i]).some

\* main.rs 23-39
ResolveColumns ==
    /\ pc = "check"
    /\ IF ~contains_field \/ ~contains_keys
       THEN /\ pc' = "bail"
            /\ UNCHANGED <<field_index, key_indices>>
       ELSE IF \/ ~Get(header_set, args.field).some
               \/ \E i \in 1..Len(args.keys) : ~Get(header_set, args.keys[i]).some
       THEN /\ pc' = "panic"                      \* unwrap() on None
            /\ UNCHANGED <<field_index, key_indices>>
       ELSE /\ field_index' = Get(header_set, args.field).value
            /\ key_indices' = [i \in 1..Len(args.keys) |->
                                  Get(header_set, args.keys[i]).value]
            /\ pc' = "loop"
    /\ UNCHANGED <<args, headers, header_set, map, record, keys,
                   no_rows_skipped, nrecords, sources, iter, out, emitted>>

\* main.rs 45-69, one turn of the loop over the row `raw`
NextRecord(raw) ==
    /\ pc = "loop"
    /\ nrecords < MaxRows
    /\ nrecords' = nrecords + 1
    /\ record' = raw
    /\ LET result == ReadRecord(raw, Len(headers)) IN
       IF ~result.ok
       THEN /\ pc' = "reader_err"                 \* result?
            /\ UNCHANGED <<map, keys, no_rows_skipped, sources>>
       ELSE IF field_index >= Len(result.record)
       THEN /\ pc' = "panic"                      \* record[field_index]
            /\ UNCHANGED <<map, keys, no_rows_skipped, sources>>
       ELSE LET field == ParseF64(result.record[field_index + 1]) IN
            /\ pc' = "loop"
            /\ map' = Accumulate(map, result.record, field_index, key_indices)
            /\ IF field.ok
               THEN /\ no_rows_skipped' = 0
                    /\ keys' = ExtractKeys(result.record, key_indices)
                    /\ sources' =
                         [k \in DOMAIN sources \cup {keys'} |->
                            (IF k \in DOMAIN sources THEN sources[k] ELSE {})
                            \cup (IF k = keys'
                                  THEN {KeyCells(result.record, key_indices)}
                                  ELSE {})]
               ELSE /\ no_rows_skipped' = 0 + 1
                    /\ keys' = <<>>
                    /\ UNCHANGED sources
    /\ UNCHANGED <<args, headers, header_set, field_index, key_indices,
                   iter, out, emitted>>

\* main.rs 45 and 71: the reader is exhausted, the header line is printed
EndOfRecords ==
    /\ pc = "loop"
    /\ out' = Append(out, HeaderLine(args.keys, args.delimiter))
    /\ iter' = DOMAIN map
    /\ pc' = "emit"
    /\ UNCHANGED <<args, headers, header_set, field_index, key_indices, map,
                   record, keys, no_rows_skipped, nrecords, sources, emitted>>

\* main.rs 72-75, one turn of the loop over the map
EmitGroup(k) ==
    /\ pc = "emit"
    /\ k \in iter
    /\ LET summary == inner_fn(args.function, map[k]) IN
       /\ out' = Append(out, GroupLine(k, summary, args.delimiter))
       /\ emitted' = Append(emitted, [key |-> k, summary |-> summary])
    /\ iter' = iter \ {k}
    /\ UNCHANGED <<args, headers, header_set, field_index, key_indices, map,
                   record, keys, no_rows_skipped, nrecords, sources, pc>>

\* main.rs 77
ReturnOk ==
    /\ pc = "emit"
    /\ iter = {}
    /\ pc' = "done"
    /\ UNCHANGED <<args, headers, header_set, field_index, key_indices, map,
                   record, keys, no_rows_skipped, nrecords, sources, iter, out,
                   emitted>>

Rows == SeqsUpTo(Cells, MaxCols)

Next ==
    \/ ReadHeaders
    \/ ResolveColumns
    \/ \E raw \in Rows : NextRecord(raw)
    \/ EndOfRecords
    \/ \E k \in iter : EmitGroup(k)
    \/ ReturnOk

Spec == Init /\ [][Next]_vars

\* ---------------------------------------------------------------- claims
Range(q) == {q[i] : i \in 1..Len(q)}

Resolved == pc \in {"loop", "reader_err", "emit", "done"}

FirstIndex(hs, n) ==
    CHOOSE i \in 0..(Len(hs) - 1) :
        hs[i + 1] = n /\ \A j \in 0..(i - 1) : hs[j + 1] # n

LastIndex(hs, n) ==
    CHOOSE i \in 0..(Len(hs) - 1) :
        hs[i + 1] = n /\ \A j \in (i + 1)..(Len(hs) - 1) : hs[j + 1] # n

RECURSIVE SumLens(_, _)
SumLens(m, S) ==
    IF S = {} THEN 0
    ELSE LET k == CHOOSE x \in S : TRUE IN Len(m[k]) + SumLens(m, S \ {k})

MaxOf(S) == CHOOSE x \in S : \A y \in S : y <= x

MaxReferenced == MaxOf({field_index} \cup Range(key_indices))

\* C1: the group key built for an ingested record has one cell per name in
\* args.keys, the i-th being the record's cell in the column of args.keys[i].
C1_KeyFollowsConfigOrder ==
    keys # <<>> => keys = KeyCells(record, key_indices)

\* C2: once ingestion has completed, the bucket lengths plus the skip counter
\* add up to the number of non-header records.
C2_TotalMass ==
    pc \in {"emit", "done"} =>
        SumLens(map, DOMAIN map) + no_rows_skipped = nrecords

\* C3: resolution bails exactly when the field or a key names no header
\* cell; it bails before any record is read, and otherwise yields the
\* position of the field and one position per key.
C3_UnknownColumn ==
    pc \notin {"headers", "check"} =>
        LET missing == \E n \in {args.field} \cup Range(args.keys) :
                            \A i \in 1..Len(headers) : headers[i] # n
        IN  /\ (pc = "bail") <=> missing
            /\ pc = "bail" => nrecords = 0 /\ map = EmptyMap /\ out = <<>>
            /\ pc # "bail" =>
                 /\ field_index \in 0..(Len(headers) - 1)
                 /\ headers[field_index + 1] = args.field
                 /\ Len(key_indices) = Len(args.keys)
                 /\ \A i \in 1..Len(args.keys) :
                       /\ key_indices[i] \in 0..(Len(headers) - 1)
                       /\ headers[key_indices[i] + 1] = args.keys[i]

W3_BailOnCaseMismatch ==
    /\ pc = "bail"
    /\ args.field \in Range(headers)
    /\ "A" \in Range(args.keys)
    /\ "a" \in Range(headers)

\* C4: parseable records share a bucket exactly when their cells at the key
\* positions are the same tuple.
C4_KeyPartition ==
    /\ DOMAIN sources = DOMAIN map
    /\ \A k \in DOMAIN sources : Cardinality(sources[k]) = 1
    /\ \A k1, k2 \in DOMAIN sources :
          k1 # k2 => sources[k1] \cap sources[k2] = {}

W4_TwoBucketsOneShared ==
    /\ Cardinality(DOMAIN map) >= 2
    /\ \E k \in DOMAIN map : Len(map[k]) >= 2
    /\ Len(key_indices) = 2

\* C5 as stated: a name that occurs more than once in the header resolves to
\* its first occurrence.
C5_FirstOccurrence ==
    Resolved =>
        /\ field_index = FirstIndex(headers, args.field)
        /\ \A i \in 1..Len(args.keys) :
              key_indices[i] = FirstIndex(headers, args.keys[i])

\* C5 amended: a name that occurs more than once in the header resolves to
\* its last occurrence.
C5_LastOccurrence ==
    Resolved =>
        /\ field_index = LastIndex(headers, args.field)
        /\ \A i \in 1..Len(args.keys) :
              key_indices[i] = LastIndex(headers, args.keys[i])

W5_DuplicateResolved ==
    /\ Resolved
    /\ Len(headers) = 2
    /\ headers[1] = headers[2]
    /\ field_index = 1

\* C6: a record whose value cell does not parse leaves every group and every
\* bucket as it was, whatever its key cells are, and creates no group.
C6_SkipIdempotence ==
    [][(/\ pc = "loop"
        /\ pc' = "loop"
        /\ nrecords' = nrecords + 1
        /\ ~ParseF64(record'[field_index + 1]).ok)
       => /\ map' = map
          /\ sources' = sources
          /\ UNCHANGED <<field_index, key_indices, iter, out>>]_vars

W6_SkippedAfterPush ==
    /\ pc = "loop"
    /\ no_rows_skipped = 1
    /\ map # EmptyMap
    /\ ExtractKeys(record, key_indices) \notin DOMAIN map

\* C7: a successful run prints the header line first (key names joined by
\* the delimiter, a tab, the token N) and then exactly one line per group of
\* the map.
C7_OneLinePerGroup ==
    pc \in {"emit", "done"} =>
        /\ out[1] = Join(args.keys, args.delimiter) \o "\tN"
        /\ Len(out) = 1 + Len(emitted)
        /\ \A i, j \in 1..Len(emitted) :
              emitted[i].key = emitted[j].key => i = j
        /\ {emitted[i].key : i \in 1..Len(emitted)} \cup iter = DOMAIN map
        /\ \A i \in 1..Len(emitted) : emitted[i].key \notin iter
        /\ pc = "done" => Len(out) = 1 + Cardinality(DOMAIN map)

W7_DoneTwoGroups ==
    /\ pc = "done"
    /\ Cardinality(DOMAIN map) >= 2
    /\ Len(args.keys) = 2
    /\ args.delimiter = ","
    /\ args.function # "N"

\* C8: a row with fewer cells than the largest referenced position ends the
\* run with the reader's error: nothing is pushed for it, nothing is printed,
\* no later row is read, and there is no panic.
C8_ShortRecord ==
    [][/\ (/\ pc = "loop"
           /\ nrecords' = nrecords + 1
           /\ Len(record') <= MaxReferenced)
          => (pc' = "reader_err" /\ map' = map /\ out' = out)
       /\ pc = "reader_err" => UNCHANGED vars]_vars

W8_ShortRowAfterPush ==
    /\ pc = "reader_err"
    /\ Len(record) <= MaxReferenced
    /\ map # EmptyMap

\* C9: every bucket of the map holds at least one value, so every summary
\* printed is Some(..) and never None.
C9_NoEmptyBucket ==
    /\ \A k \in DOMAIN map : Len(map[k]) >= 1
    /\ \A i \in 1..Len(emitted) :
          /\ emitted[i].summary.some
          /\ out[i + 1] # Join(emitted[i].key, args.delimiter) \o "\tNone"

W9_SingletonSummaries ==
    /\ pc = "done"
    /\ args.function \in {"Mean", "StdDev", "Var"}
    /\ \E k \in DOMAIN map : Len(map[k]) = 1
    /\ \E k \in DOMAIN map : Len(map[k]) = 2

\* C10: nothing is printed before the reader is exhausted, the map does not
\* change once a line has been printed, and a run that fails prints nothing.
C10_EmitAfterIngest ==
    /\ [](out # <<>> => pc \in {"emit", "done"})
    /\ [](pc \in {"bail", "reader_err", "panic"} => out = <<>>)
    /\ [][out # <<>> => (map' = map /\ nrecords' = nrecords)]_vars

W10_EmittingAfterRows ==
    /\ pc = "emit"
    /\ Len(out) >= 2
    /\ nrecords >= 2

====
